---- MODULE Spec2Model ----
(***************************************************************************)
(* Model of src/commands/aicommits.ts: the default export, one async       *)
(* function whose body is a chain of awaited operations (git shell-outs,   *)
(* interactive prompts, one generation call) with a .catch handler.        *)
(*                                                                         *)
(* pc names the awaited operation that is pending.  Each action is the     *)
(* continuation that runs when that operation settles: it draws the        *)
(* operation's outcome, runs the synchronous code up to the next await     *)
(* (or return / throw) and appends to `out` every side effect the code     *)
(* issues on the way, in program order.                                    *)
(*                                                                         *)
(* Strings are TLA+ strings.  The source's emoji are written as :name:     *)
(* shortcodes and the coloured marks as [v] / [x], because the module is   *)
(* ASCII; terminal colour wrappers (bgCyan, dim, green, red) are dropped.  *)
(***************************************************************************)
EXTENDS Naturals, Integers, Sequences, FiniteSets, TLC

VARIABLES
    pc,          \* pending awaited operation, or "catch" / "done" / "exited"
    out,         \* side effects issued so far, in program order
    error,       \* the thrown error travelling to / held by the .catch handler
    exitCode,    \* -1 while the process runs, then its exit code
    stageAll,    \* parameter stageAll
    rawArgv,     \* parameter rawArgv
    staged,      \* const staged  (line 49)
    bgInfo,      \* const bgInfo  (line 67)
    prefix,      \* const prefix  (line 75)
    messages,    \* let messages  (line 97)
    message,     \* let message   (line 120)
    confirmed,   \* const confirmed (line 125)
    selected,    \* const selected  (line 143)
    settled      \* history: the outcomes the awaited operations settled with

vars == <<pc, out, error, exitCode, stageAll, rawArgv, staged, bgInfo,
          prefix, messages, message, confirmed, selected, settled>>

params == <<stageAll, rawArgv>>

(***************************************************************************)
(* Bounds and input domains                                                *)
(***************************************************************************)
MaxCandidates == 3

\* Raw candidate strings the generation service may return.
Candidates == {"add login guard", "fix typo"}

\* Candidate sequences of length 0..MaxCandidates (duplicates allowed).
CandidateSets == UNION {[1..n -> Candidates] : n \in 0..MaxCandidates}

\* Pass-through argument vectors.
RawArgvs == {<<>>, <<"--no-verify">>}

\* Free-text notes the user may type.
Notes == {"", "fixed typo"}

\* Non-empty results of getStagedDiff.
StagedDiffs == {[files |-> <<"src/login.ts">>, diff |-> "diff --git a/src/login.ts"]}

excludeFiles == <<>>

Unset == "<unset>"
NoError == [name |-> "", message |-> ""]
NoAnswer == [cancel |-> FALSE, value |-> Unset]

(***************************************************************************)
(* Prompt answers: @clack/prompts resolves to the value or to a cancel     *)
(* symbol, which isCancel recognises and which equals no string.           *)
(***************************************************************************)
CancelSymbol == [cancel |-> TRUE, value |-> "Symbol(clack:cancel)"]

Value(v) == [cancel |-> FALSE, value |-> v]

isCancel(r) == r.cancel

(***************************************************************************)
(* Errors                                                                  *)
(***************************************************************************)
KnownError(msg) == [name |-> "KnownError", message |-> msg]

\* Rejections of the external collaborators; their texts are not in this file.
ExternalError(what) == [name |-> "Error", message |-> what \o " failed"]

\* The source quotes --all in backquotes, written here as apostrophes.
NoStagedMessage ==
    "No staged changes found. Stage your changes manually, or automatically stage all changes with the '--all' flag."

EmptyGenerationMessage == "No commit messages were generated. Try again."

(***************************************************************************)
(* Side effects                                                            *)
(***************************************************************************)
Effect(op, arg) == [op |-> op, arg |-> arg]

Emit(effects) == out' = out \o effects

CancelledText == "Commit cancelled"

(***************************************************************************)
(* commitPrefixes and the prompt option lists                              *)
(***************************************************************************)
commitPrefixes ==
    [p \in {"", "entrust", "fix", "chore", "docs", "style", "feat", "perf",
            "test", "security", "refactor"} |->
        CASE p = "" -> ""
          [] p = "entrust" -> ""
          [] p = "fix" -> ":bug: fix"
          [] p = "chore" -> ":hammer: chore"
          [] p = "docs" -> ":memo: docs"
          [] p = "style" -> ":art: style"
          [] p = "feat" -> ":rocket: feat"
          [] p = "perf" -> ":fire: perf"
          [] p = "test" -> ":rotating_light: test"
          [] p = "security" -> ":lock: security"
          [] p = "refactor" -> ":wrench: refactor"]

PrefixOptions ==
    << [label |-> "None", value |-> ""],
       [label |-> "Entrust", value |-> "entrust"],
       [label |-> ":bug: fix", value |-> "fix"],
       [label |-> ":hammer: chore", value |-> "chore"],
       [label |-> ":memo: docs", value |-> "docs"],
       [label |-> ":art: style", value |-> "style"],
       [label |-> ":rocket: feat", value |-> "feat"],
       [label |-> ":fire: perf", value |-> "perf"],
       [label |-> ":rotating_light: test", value |-> "test"],
       [label |-> ":lock: security", value |-> "security"],
       [label |-> ":wrench: refactor", value |-> "refactor"] >>

ConfirmOptions ==
    << [label |-> "Yes", value |-> "yes"],
       [label |-> "No, regenerate", value |-> "regenerate"],
       [label |-> "No, cancel commit", value |-> "cancel"] >>

\* What a select prompt can resolve to: one of its options' values, or cancel.
SelectAnswers(options) ==
    {Value(options[i].value) : i \in DOMAIN options} \cup {CancelSymbol}

\* Mutant of PickOptions: candidates are deduplicated before they are listed.
PickOptions_Dedup(msgs) ==
    LET first == {i \in DOMAIN msgs : \A j \in 1..(i - 1) : msgs[j] # msgs[i]}
        nth[k \in 1..Cardinality(first)] ==
            CHOOSE i \in first : Cardinality({j \in first : j <= i}) = k
    IN [k \in 1..Cardinality(first) |->
            [label |-> msgs[nth[k]], value |-> msgs[nth[k]]]]

\* options: messages.map(value => ({ label: value, value }))
PickOptions(msgs) == [i \in DOMAIN msgs |-> [label |-> msgs[i], value |-> msgs[i]]]

(***************************************************************************)
(* The decoration expression, once per branch as in the source             *)
(***************************************************************************)
\* line 124
DecorateSingle(p, m) ==
    IF p = "entrust" \/ p = "" THEN m ELSE commitPrefixes[p] \o ": " \o m

\* Mutant of DecorateMulti: the picked candidate is committed undecorated.
DecorateMulti_Verbatim(p, m) == m

\* line 155
DecorateMulti(p, m) ==
    IF p = "entrust" \/ p = "" THEN m ELSE commitPrefixes[p] \o ": " \o m

(***************************************************************************)
(* The generation call's auxiliary instruction                             *)
(***************************************************************************)
\* line 99
BgInfoText(note) ==
    IF note # "" THEN "Background information provided from user: " \o note
    ELSE ""

EntrustDirective ==
    "\nThe commit message must begin with an emoji and prefix that best describes the change. (e.g. :bug: fix: bug in something.js file where processing does not stop)"

\* line 105
Instruction(p, note) ==
    IF p = "entrust" THEN BgInfoText(note) \o EntrustDirective
    ELSE BgInfoText(note)

(***************************************************************************)
(* Effects issued by the code                                              *)
(***************************************************************************)
Intro == Effect("intro", " aicommits ")
AssertGitRepoCall == Effect("assertGitRepo", <<>>)
GitAddCall == Effect("execa", [file |-> "git", args |-> <<"add", "--update">>])
SpinnerStart(text) == Effect("spinner.start", text)
SpinnerStop(text) == Effect("spinner.stop", text)
GetStagedDiffCall == Effect("getStagedDiff", excludeFiles)
GetConfigCall == Effect("getConfig", <<>>)
TextPrompt ==
    Effect("text",
           [message |-> "Please enter any background information you would like to pass on to the AI.",
            placeholder |-> "fixed typo"])
PrefixPrompt ==
    Effect("select.prefix",
           [message |-> "Please select a prefix for the commit message.",
            options |-> PrefixOptions])
GenerateCall(diff, instruction) ==
    Effect("generateCommitMessage", [diff |-> diff, instruction |-> instruction])
ConfirmPrompt(m) ==
    Effect("select.confirm",
           [message |-> "Use this commit message?\n\n   " \o m \o "\n",
            options |-> ConfirmOptions,
            initialValue |-> "yes"])
PickPrompt(msgs) ==
    Effect("select.pick",
           [message |-> "Pick a commit message to use: (Ctrl+c to exit)",
            options |-> PickOptions(msgs)])
SpawnCall(argv) ==
    Effect("execa", [file |-> "aim", args |-> argv, stdio |-> "inherit"])
CommitCall(m, argv) ==
    Effect("execa", [file |-> "git", args |-> <<"commit", "-m", m>> \o argv])
Outro(text) == Effect("outro", text)
HandleCliError(e) == Effect("handleCliError", e)
Exit(code) == Effect("process.exit", code)

(***************************************************************************)
(* Ways a continuation ends                                                *)
(***************************************************************************)
\* await <next operation>: the effects up to and including its call are issued
Await(effects, next) ==
    /\ Emit(effects)
    /\ pc' = next
    /\ UNCHANGED <<error, exitCode>>

\* throw inside the async body: the promise rejects and .catch will run
Throw(effects, e) ==
    /\ Emit(effects)
    /\ pc' = "catch"
    /\ error' = e
    /\ UNCHANGED exitCode

\* return from the async body: nothing is pending, the process ends normally
Return(effects) ==
    /\ Emit(effects)
    /\ pc' = "done"
    /\ exitCode' = 0
    /\ UNCHANGED error

\* outro('Commit cancelled'); return;
Cancelled == Return(<<Outro(CancelledText)>>)

\* An awaited operation settled: resolved (ok) with value, or rejected.
Settle(op, ok, value) ==
    settled' = Append(settled, [op |-> op, ok |-> ok, value |-> value])

(***************************************************************************)
(* Initial state: the function was called, intro printed and               *)
(* assertGitRepo() awaited (lines 31-39)                                   *)
(***************************************************************************)
Init ==
    /\ stageAll \in BOOLEAN
    /\ rawArgv \in RawArgvs
    /\ pc = "assertGitRepo"
    /\ out = <<Intro, AssertGitRepoCall>>
    /\ error = NoError
    /\ exitCode = -1
    /\ staged = [files |-> <<>>, diff |-> ""]
    /\ bgInfo = NoAnswer
    /\ prefix = NoAnswer
    /\ messages = <<>>
    /\ message = Unset
    /\ confirmed = NoAnswer
    /\ selected = NoAnswer
    /\ settled = <<>>

\* files.map(file => `     ${file}`).join('\n')
RECURSIVE FileLines(_)
FileLines(files) ==
    IF Len(files) = 0 THEN ""
    ELSE IF Len(files) = 1 THEN "     " \o files[1]
    ELSE "     " \o files[1] \o "\n" \o FileLines(Tail(files))

\* line 56; getDetectedMessage is imported, its text is kept symbolic
DetectedText(files) == "getDetectedMessage(files)" \o ":\n" \o FileLines(files)

\* detectingFiles.start(...); await getStagedDiff(excludeFiles)   (lines 48-49)
DetectCalls == <<SpinnerStart("Detecting staged files"), GetStagedDiffCall>>

(***************************************************************************)
(* Lines 39-46: assertGitRepo settles; then the optional index update      *)
(***************************************************************************)
\* Mutant of OnAssertGitRepo: the stageAll flag is not tested.
OnAssertGitRepo_AlwaysStage(ok) ==
    IF ~ok THEN Throw(<<>>, ExternalError("assertGitRepo"))
    ELSE Await(<<GitAddCall>>, "gitAdd")

OnAssertGitRepo(ok) ==
    IF ~ok THEN Throw(<<>>, ExternalError("assertGitRepo"))
    ELSE IF stageAll THEN Await(<<GitAddCall>>, "gitAdd")
    ELSE Await(DetectCalls, "getStagedDiff")

AssertGitRepoSettles ==
    /\ pc = "assertGitRepo"
    /\ \E ok \in BOOLEAN : OnAssertGitRepo(ok) /\ Settle("assertGitRepo", ok, <<>>)
    /\ UNCHANGED <<params, staged, bgInfo, prefix, messages, message, confirmed, selected>>

(***************************************************************************)
(* Line 45: git add --update settles                                       *)
(***************************************************************************)
OnGitAdd(ok) ==
    IF ~ok THEN Throw(<<>>, ExternalError("git add --update"))
    ELSE Await(DetectCalls, "getStagedDiff")

GitAddSettles ==
    /\ pc = "gitAdd"
    /\ \E ok \in BOOLEAN : OnGitAdd(ok) /\ Settle("git add", ok, <<>>)
    /\ UNCHANGED <<params, staged, bgInfo, prefix, messages, message, confirmed, selected>>

(***************************************************************************)
(* Lines 49-65: getStagedDiff settles; r.ok = FALSE is a rejection,        *)
(* r.found = FALSE the falsy result                                        *)
(***************************************************************************)
StagedDiffResults ==
    {[ok |-> FALSE, found |-> FALSE, value |-> [files |-> <<>>, diff |-> ""]],
     [ok |-> TRUE, found |-> FALSE, value |-> [files |-> <<>>, diff |-> ""]]}
    \cup {[ok |-> TRUE, found |-> TRUE, value |-> d] : d \in StagedDiffs}

OnGetStagedDiff(r) ==
    IF ~r.ok THEN Throw(<<>>, ExternalError("getStagedDiff")) /\ UNCHANGED staged
    ELSE IF ~r.found
    THEN /\ Throw(<<SpinnerStop("Detecting staged files")>>, KnownError(NoStagedMessage))
         /\ UNCHANGED staged
    ELSE /\ staged' = r.value
         /\ Await(<<SpinnerStop(DetectedText(r.value.files)), GetConfigCall>>,
                  "getConfig")

GetStagedDiffSettles ==
    /\ pc = "getStagedDiff"
    /\ \E r \in StagedDiffResults : OnGetStagedDiff(r) /\ Settle("getStagedDiff", r.ok, r.found)
    /\ UNCHANGED <<params, bgInfo, prefix, messages, message, confirmed, selected>>

(***************************************************************************)
(* Lines 60-70: getConfig settles; the background-note prompt is shown     *)
(***************************************************************************)
OnGetConfig(ok) ==
    IF ~ok THEN Throw(<<>>, ExternalError("getConfig"))
    ELSE Await(<<TextPrompt>>, "text")

GetConfigSettles ==
    /\ pc = "getConfig"
    /\ \E ok \in BOOLEAN : OnGetConfig(ok) /\ Settle("getConfig", ok, <<>>)
    /\ UNCHANGED <<params, staged, bgInfo, prefix, messages, message, confirmed, selected>>

\* The options of the prompt that is on screen (the last effect issued).
ShownOptions == out[Len(out)].arg.options

(***************************************************************************)
(* Lines 67-90: the note prompt settles; the prefix prompt is shown        *)
(***************************************************************************)
OnBgInfo(r) ==
    /\ bgInfo' = r
    /\ IF isCancel(r) THEN Cancelled ELSE Await(<<PrefixPrompt>>, "prefix")

BgInfoSettles ==
    /\ pc = "text"
    /\ \E r \in {Value(n) : n \in Notes} \cup {CancelSymbol} :
          OnBgInfo(r) /\ Settle("text", TRUE, r)
    /\ UNCHANGED <<params, staged, prefix, messages, message, confirmed, selected>>

(***************************************************************************)
(* Lines 75-111: the prefix prompt settles; the spinner starts and the     *)
(* generation call is made                                                 *)
(***************************************************************************)
AnalyzingText == "The AI is analyzing your changes"

\* Mutant of OnPrefix: the isCancel(prefix) test is missing.
OnPrefix_NoCancelCheck(r) ==
    /\ prefix' = r
    /\ Await(<<SpinnerStart(AnalyzingText),
               GenerateCall(staged.diff, Instruction(r.value, bgInfo.value))>>,
             "generate")

OnPrefix(r) ==
    /\ prefix' = r
    /\ IF isCancel(r) THEN Cancelled
       ELSE Await(<<SpinnerStart(AnalyzingText),
                    GenerateCall(staged.diff, Instruction(r.value, bgInfo.value))>>,
                  "generate")

PrefixSettles ==
    /\ pc = "prefix"
    /\ \E r \in SelectAnswers(ShownOptions) :
          OnPrefix(r) /\ Settle("select.prefix", TRUE, r)
    /\ UNCHANGED <<params, staged, bgInfo, messages, message, confirmed, selected>>

(***************************************************************************)
(* Lines 97-133 and 142-146: the generation call settles; finally stops    *)
(* the spinner; then the empty check and the first controller prompt       *)
(***************************************************************************)
GenerateResults ==
    {[ok |-> FALSE, value |-> <<>>]} \cup {[ok |-> TRUE, value |-> c] : c \in CandidateSets}

\* finally { s.stop('Changes analyzed') }
Finally == <<SpinnerStop("Changes analyzed")>>

\* Mutant of OnGenerate: the length-0 test is missing.
OnGenerate_NoEmptyCheck(r) ==
    IF ~r.ok
    THEN /\ Throw(Finally, ExternalError("generateCommitMessage"))
         /\ UNCHANGED <<messages, message>>
    ELSE /\ messages' = r.value
         /\ IF Len(r.value) = 1
            THEN LET m == DecorateSingle(prefix.value, r.value[1]) IN
                 /\ message' = m
                 /\ Await(Finally \o <<ConfirmPrompt(m)>>, "confirm")
            ELSE /\ Await(Finally \o <<PickPrompt(r.value)>>, "pick")
                 /\ UNCHANGED message

\* Mutant of OnGenerate: s.stop follows the call instead of sitting in finally.
OnGenerate_NoFinally(r) ==
    IF ~r.ok
    THEN /\ Throw(<<>>, ExternalError("generateCommitMessage"))
         /\ UNCHANGED <<messages, message>>
    ELSE /\ messages' = r.value
         /\ IF Len(r.value) = 0
            THEN /\ Throw(Finally, KnownError(EmptyGenerationMessage))
                 /\ UNCHANGED message
            ELSE IF Len(r.value) = 1
            THEN LET m == DecorateSingle(prefix.value, r.value[1]) IN
                 /\ message' = m
                 /\ Await(Finally \o <<ConfirmPrompt(m)>>, "confirm")
            ELSE /\ Await(Finally \o <<PickPrompt(r.value)>>, "pick")
                 /\ UNCHANGED message

\* Mutant of OnGenerate: a failed call is caught and treated as no candidates
\* to choose from, the run ending quietly.
OnGenerate_Swallowed(r) ==
    IF ~r.ok
    THEN /\ Return(Finally)
         /\ UNCHANGED <<messages, message>>
    ELSE /\ messages' = r.value
         /\ IF Len(r.value) = 0
            THEN /\ Throw(Finally, KnownError(EmptyGenerationMessage))
                 /\ UNCHANGED message
            ELSE IF Len(r.value) = 1
            THEN LET m == DecorateSingle(prefix.value, r.value[1]) IN
                 /\ message' = m
                 /\ Await(Finally \o <<ConfirmPrompt(m)>>, "confirm")
            ELSE /\ Await(Finally \o <<PickPrompt(r.value)>>, "pick")
                 /\ UNCHANGED message

OnGenerate(r) ==
    IF ~r.ok
    THEN /\ Throw(Finally, ExternalError("generateCommitMessage"))
         /\ UNCHANGED <<messages, message>>
    ELSE /\ messages' = r.value
         /\ IF Len(r.value) = 0
            THEN /\ Throw(Finally, KnownError(EmptyGenerationMessage))
                 /\ UNCHANGED message
            ELSE IF Len(r.value) = 1
            THEN LET m == DecorateSingle(prefix.value, r.value[1]) IN
                 /\ message' = m
                 /\ Await(Finally \o <<ConfirmPrompt(m)>>, "confirm")
            ELSE /\ Await(Finally \o <<PickPrompt(r.value)>>, "pick")
                 /\ UNCHANGED message

GenerateSettles ==
    /\ pc = "generate"
    /\ \E r \in GenerateResults :
          OnGenerate(r) /\ Settle("generateCommitMessage", r.ok, r.value)
    /\ UNCHANGED <<params, staged, bgInfo, prefix, confirmed, selected>>

(***************************************************************************)
(* Lines 125-141 and 158: the confirmation prompt settles                  *)
(***************************************************************************)
\* Mutant of OnConfirmed: only the cancel symbol is tested, not 'cancel'.
OnConfirmed_CancelValueIgnored(r) ==
    /\ confirmed' = r
    /\ IF isCancel(r) THEN Cancelled
       ELSE IF r.value = "regenerate" THEN Await(<<SpawnCall(rawArgv)>>, "child")
       ELSE Await(<<CommitCall(message, rawArgv)>>, "commit")

\* Mutant of OnConfirmed: the child is spawned but its promise is not returned.
OnConfirmed_SpawnNotAwaited(r) ==
    /\ confirmed' = r
    /\ IF r.value = "cancel" \/ isCancel(r) THEN Cancelled
       ELSE IF r.value = "regenerate" THEN Return(<<SpawnCall(rawArgv)>>)
       ELSE Await(<<CommitCall(message, rawArgv)>>, "commit")

OnConfirmed(r) ==
    /\ confirmed' = r
    /\ IF r.value = "cancel" \/ isCancel(r) THEN Cancelled
       ELSE IF r.value = "regenerate" THEN Await(<<SpawnCall(rawArgv)>>, "child")
       ELSE Await(<<CommitCall(message, rawArgv)>>, "commit")

ConfirmSettles ==
    /\ pc = "confirm"
    /\ \E r \in SelectAnswers(ShownOptions) :
          OnConfirmed(r) /\ Settle("select.confirm", TRUE, r)
    /\ UNCHANGED <<params, staged, bgInfo, prefix, messages, message, selected>>

(***************************************************************************)
(* Lines 143-158: the pick prompt settles                                  *)
(***************************************************************************)
OnSelected(r) ==
    /\ selected' = r
    /\ IF isCancel(r) THEN Cancelled /\ UNCHANGED message
       ELSE LET m == DecorateMulti(prefix.value, r.value) IN
            /\ message' = m
            /\ Await(<<CommitCall(m, rawArgv)>>, "commit")

PickSettles ==
    /\ pc = "pick"
    /\ \E r \in SelectAnswers(ShownOptions) :
          OnSelected(r) /\ Settle("select.pick", TRUE, r)
    /\ UNCHANGED <<params, staged, bgInfo, prefix, messages, confirmed>>

(***************************************************************************)
(* Line 140: the returned child promise settles when the child exits       *)
(***************************************************************************)
OnChildExit(ok) ==
    IF ok THEN Return(<<>>) ELSE Throw(<<>>, ExternalError("aim"))

ChildSettles ==
    /\ pc = "child"
    /\ \E ok \in BOOLEAN : OnChildExit(ok) /\ Settle("aim", ok, <<>>)
    /\ UNCHANGED <<params, staged, bgInfo, prefix, messages, message, confirmed, selected>>

(***************************************************************************)
(* Lines 158-160: git commit settles                                       *)
(***************************************************************************)
OnCommit(ok) ==
    IF ok THEN Return(<<Outro("[v] Successfully committed!")>>)
    ELSE Throw(<<>>, ExternalError("git commit"))

CommitSettles ==
    /\ pc = "commit"
    /\ \E ok \in BOOLEAN : OnCommit(ok) /\ Settle("git commit", ok, <<>>)
    /\ UNCHANGED <<params, staged, bgInfo, prefix, messages, message, confirmed, selected>>

(***************************************************************************)
(* Lines 161-165: the .catch handler                                       *)
(***************************************************************************)
\* Mutant of CatchHandler: process.exit(1) is missing.
CatchHandler_NoExit ==
    /\ pc = "catch"
    /\ Emit(<<Outro("[x] " \o error.message), HandleCliError(error)>>)
    /\ pc' = "done"
    /\ exitCode' = 0
    /\ UNCHANGED <<error, params, staged, bgInfo, prefix, messages, message,
                   confirmed, selected, settled>>

CatchHandler ==
    /\ pc = "catch"
    /\ Emit(<<Outro("[x] " \o error.message), HandleCliError(error), Exit(1)>>)
    /\ pc' = "exited"
    /\ exitCode' = 1
    /\ UNCHANGED <<error, params, staged, bgInfo, prefix, messages, message,
                   confirmed, selected, settled>>

Next ==
    \/ AssertGitRepoSettles
    \/ GitAddSettles
    \/ GetStagedDiffSettles
    \/ GetConfigSettles
    \/ BgInfoSettles
    \/ PrefixSettles
    \/ GenerateSettles
    \/ ConfirmSettles
    \/ PickSettles
    \/ ChildSettles
    \/ CommitSettles
    \/ CatchHandler

Spec == Init /\ [][Next]_vars

(***************************************************************************)
(* Observations on a run                                                   *)
(***************************************************************************)
IsCommit(e) == e.op = "execa" /\ e.arg.file = "git" /\ e.arg.args[1] = "commit"
IsSpawn(e) == e.op = "execa" /\ e.arg.file = "aim"
IsGitAdd(e) == e.op = "execa" /\ e.arg.file = "git" /\ e.arg.args[1] = "add"

Commits == {i \in DOMAIN out : IsCommit(out[i])}
Spawns == {i \in DOMAIN out : IsSpawn(out[i])}
GitAdds == {i \in DOMAIN out : IsGitAdd(out[i])}
Issued(op) == {i \in DOMAIN out : out[i].op = op}

CollectorPrompts == Issued("text") \cup Issued("select.prefix")
ControllerPrompts == Issued("select.confirm") \cup Issued("select.pick")

Rejected(op) == \E k \in DOMAIN settled : settled[k].op = op /\ ~settled[k].ok
Resolved(op) == \E k \in DOMAIN settled : settled[k].op = op /\ settled[k].ok

Answered(r) == r # NoAnswer
Picked == Answered(selected) /\ ~isCancel(selected)
SaidYes == confirmed = Value("yes")
Regenerated == confirmed = Value("regenerate")
UserCancelled ==
    \/ isCancel(bgInfo)
    \/ isCancel(prefix)
    \/ isCancel(confirmed)
    \/ confirmed = Value("cancel")
    \/ isCancel(selected)

NotAGitRepo == Rejected("assertGitRepo")
NoStagedChanges ==
    \E k \in DOMAIN settled :
        settled[k].op = "getStagedDiff" /\ settled[k].ok /\ ~settled[k].value
GenerationFailure == Rejected("generateCommitMessage")
EmptyGeneration ==
    \E k \in DOMAIN settled :
        /\ settled[k].op = "generateCommitMessage"
        /\ settled[k].ok
        /\ Len(settled[k].value) = 0
CommitFailure == Rejected("git commit")
CommitSucceeded == Resolved("git commit")
FatalCondition ==
    \/ NoStagedChanges
    \/ EmptyGeneration
    \/ \E k \in DOMAIN settled : ~settled[k].ok

Ended == pc \in {"done", "exited"}

\* The last n effects issued.
LastEffects(n) == IF Len(out) < n THEN <<>> ELSE SubSeq(out, Len(out) - n + 1, Len(out))

FailureLine(e) == Outro("[x] " \o e.message)
HandlerEffects(e) == <<FailureLine(e), HandleCliError(e), Exit(1)>>

\* The raw candidate the final message is built from.
RawChosen == IF Len(messages) = 1 THEN messages[1] ELSE selected.value

\* The decoration rule as the specification states it.
DecorationRule(p, raw) ==
    IF p \in {"", "entrust"} THEN raw ELSE commitPrefixes[p] \o ": " \o raw

(***************************************************************************)
(* C1 (as amended).  The commit operation is invoked at most once, only    *)
(* after the final message was fixed by "Yes" on the confirmation prompt   *)
(* or by a pick, and with exactly that message; a run that was cancelled,  *)
(* chose regeneration, or failed with any fatal error other than a failure *)
(* of the commit operation itself has invoked it zero times.               *)
(***************************************************************************)
C1_CommitOnlyWhenConfirmed ==
    /\ Cardinality(Commits) <= 1
    /\ \A i \in Commits :
        /\ SaidYes \/ Picked
        /\ i > 1 /\ (i - 1) \in ControllerPrompts
        /\ out[i] = CommitCall(message, rawArgv)
    /\ (UserCancelled \/ Regenerated \/ (error # NoError /\ ~CommitFailure))
          => Commits = {}

\* C1 as stated: every run that ends in cancellation, regeneration or a
\* fatal error has invoked the commit operation zero times.
C1_AsStated ==
    /\ Cardinality(Commits) <= 1
    /\ \A i \in Commits : SaidYes \/ Picked
    /\ (UserCancelled \/ Regenerated \/ error # NoError) => Commits = {}

C1_Witness ==
    /\ pc = "done"
    /\ SaidYes
    /\ Cardinality(Commits) = 1
    /\ CommitSucceeded

(***************************************************************************)
(* C2.  A cancellation at any prompt (note, prefix, confirmation including *)
(* "No, cancel commit", pick) ends the run at once: the only effect after  *)
(* the cancelled prompt is the "Commit cancelled" outro, nothing is        *)
(* pending, no generation call follows a cancellation in the collector, no *)
(* commit, no error, handler not entered, exit code 0.                     *)
(***************************************************************************)
C2_CancelTerminates ==
    UserCancelled =>
        /\ pc = "done"
        /\ exitCode = 0
        /\ error = NoError
        /\ Len(out) >= 2
        /\ out[Len(out)] = Outro(CancelledText)
        /\ out[Len(out) - 1].op =
              (IF isCancel(bgInfo) THEN "text"
               ELSE IF isCancel(prefix) THEN "select.prefix"
               ELSE IF Len(messages) = 1 THEN "select.confirm"
               ELSE "select.pick")
        /\ (isCancel(bgInfo) \/ isCancel(prefix)) => Issued("generateCommitMessage") = {}
        /\ Commits = {}
        /\ Spawns = {}
        /\ Issued("handleCliError") = {}
        /\ Issued("process.exit") = {}

C2_Witness == isCancel(prefix) /\ pc = "done" /\ exitCode = 0

(***************************************************************************)
(* C3.  With one candidate, "No, regenerate" spawns exactly one child,     *)
(* `aim` with rawArgv and the inherited terminal, right after the prompt;  *)
(* the current process invokes no commit and ends only after the child     *)
(* has exited.                                                             *)
(***************************************************************************)
C3_RegenerateSpawnsOnce ==
    Regenerated =>
        /\ Len(messages) = 1
        /\ Cardinality(Spawns) = 1
        /\ \A i \in Spawns :
            /\ out[i] = SpawnCall(rawArgv)
            /\ out[i - 1].op = "select.confirm"
        /\ Commits = {}
        /\ Ended => (Resolved("aim") \/ Rejected("aim"))

C3_Witness == Regenerated /\ pc = "done" /\ Resolved("aim") /\ rawArgv # <<>>

(***************************************************************************)
(* C4.  Exit code 0 after a successful commit or a cancellation, 1 after   *)
(* any fatal condition; every fatal condition reaches the one handler,     *)
(* whose effects are the failure line, handleCliError and exit(1) in that  *)
(* order; no operation is issued twice.                                    *)
(***************************************************************************)
StepOps ==
    {"assertGitRepo", "getStagedDiff", "getConfig", "text", "select.prefix",
     "generateCommitMessage", "select.confirm", "select.pick"}

C4_ExitCodes ==
    /\ (CommitSucceeded \/ UserCancelled) => (pc = "done" /\ exitCode = 0)
    /\ FatalCondition <=> error # NoError
    /\ FatalCondition <=> pc \in {"catch", "exited"}
    /\ pc = "catch" => exitCode = -1
    /\ pc = "exited" =>
          /\ exitCode = 1
          /\ LastEffects(3) = HandlerEffects(error)
          /\ Cardinality(Issued("process.exit")) = 1
    /\ exitCode = 1 => pc = "exited"
    /\ NotAGitRepo => error = ExternalError("assertGitRepo")
    /\ NoStagedChanges => error = KnownError(NoStagedMessage)
    /\ EmptyGeneration => error = KnownError(EmptyGenerationMessage)
    /\ GenerationFailure => error = ExternalError("generateCommitMessage")
    /\ CommitFailure => error = ExternalError("git commit")
    /\ \A op \in StepOps : Cardinality(Issued(op)) <= 1
    /\ Cardinality(Issued("execa")) <= 2
    /\ Cardinality(GitAdds) <= 1 /\ Cardinality(Spawns) <= 1 /\ Cardinality(Commits) <= 1

C4_Witness == CommitFailure /\ pc = "exited" /\ exitCode = 1

(***************************************************************************)
(* C5 (as amended).  When the generation call returns zero candidates the  *)
(* controller is never entered: EmptyGeneration is raised before any       *)
(* message-selection prompt is shown (the note and prefix prompts of the   *)
(* collector were shown before the call), nothing is spawned and no commit *)
(* is invoked.                                                             *)
(***************************************************************************)
C5_EmptyNeverEntersController ==
    EmptyGeneration =>
        /\ error = KnownError(EmptyGenerationMessage)
        /\ pc \in {"catch", "exited"}
        /\ ControllerPrompts = {}
        /\ confirmed = NoAnswer /\ selected = NoAnswer /\ message = Unset
        /\ Spawns = {}
        /\ Commits = {}

\* C5 as stated: EmptyGeneration is raised before any prompt is shown.
C5_AsStated ==
    EmptyGeneration =>
        /\ error = KnownError(EmptyGenerationMessage)
        /\ CollectorPrompts \cup ControllerPrompts = {}
        /\ Commits = {}

C5_Witness ==
    /\ EmptyGeneration
    /\ pc = "exited"
    /\ CollectorPrompts # {}
    /\ ControllerPrompts = {}

(***************************************************************************)
(* C6.  Once the "analyzing" indicator was started it is stopped as soon   *)
(* as the generation call settles, on success and on failure alike: the    *)
(* stop is the first effect after the call and so precedes the outcome of  *)
(* the empty check, every message-selection prompt and the handler's exit. *)
(***************************************************************************)
C6_SpinnerAlwaysStopped ==
    \A i \in Issued("spinner.start") :
        out[i].arg = AnalyzingText =>
            /\ i + 1 <= Len(out) /\ out[i + 1].op = "generateCommitMessage"
            /\ \/ pc = "generate" /\ Len(out) = i + 1
               \/ /\ pc # "generate"
                  /\ i + 2 <= Len(out)
                  /\ out[i + 2] = SpinnerStop("Changes analyzed")
                  /\ \A j \in ControllerPrompts \cup Issued("process.exit")
                               \cup Issued("outro") \cup Issued("handleCliError") :
                        j > i + 2
            /\ Cardinality({j \in Issued("spinner.stop") : out[j].arg = "Changes analyzed"}) <= 1

C6_Witness ==
    /\ GenerationFailure
    /\ pc = "exited"
    /\ \E j \in Issued("spinner.stop") : out[j].arg = "Changes analyzed"

(***************************************************************************)
(* C7.  The committed message is the decoration rule applied once to the   *)
(* raw candidate, in both branches: label, ": ", raw for a labelled        *)
(* prefix, the raw candidate itself for none and entrust.  With a single   *)
(* candidate the confirmation prompt shows the string that is committed.   *)
(***************************************************************************)
C7_DecorationRule ==
    /\ \A i \in Commits :
        LET final == DecorationRule(prefix.value, RawChosen) IN
        /\ out[i].arg.args = <<"commit", "-m", final>> \o rawArgv
        /\ Len(messages) = 1 =>
              out[i - 1].arg.message = "Use this commit message?\n\n   " \o final \o "\n"
    /\ \A i \in Issued("select.confirm") :
        out[i].arg.message =
            "Use this commit message?\n\n   "
                \o DecorationRule(prefix.value, messages[1]) \o "\n"

\* scenario A, and a labelled pick among several candidates
C7_Witness ==
    /\ prefix = Value("fix")
    /\ messages = <<"add login guard">>
    /\ \E i \in Commits : out[i].arg.args[3] = ":bug: fix: add login guard"

C7_WitnessMulti ==
    /\ prefix = Value("feat")
    /\ Len(messages) >= 2
    /\ \E i \in Commits : out[i].arg.args[3] = ":rocket: feat: fix typo"

(***************************************************************************)
(* C8.  With two or more candidates the pick prompt lists one option per   *)
(* candidate, in generation order, duplicates kept; a pick is decorated    *)
(* and committed as the very next effect, with no confirmation prompt, and *)
(* no child is ever spawned on this path.                                  *)
(***************************************************************************)
C8_MultiCandidatePath ==
    /\ (Resolved("generateCommitMessage") /\ Len(messages) >= 2)
          => Cardinality(Issued("select.pick")) = 1
    /\ \A i \in Issued("select.pick") :
        LET options == out[i].arg.options IN
        /\ Len(messages) >= 2
        /\ Len(options) = Len(messages)
        /\ \A k \in DOMAIN messages :
              options[k] = [label |-> messages[k], value |-> messages[k]]
        /\ Picked =>
              /\ i + 1 <= Len(out)
              /\ out[i + 1] = CommitCall(DecorationRule(prefix.value, selected.value), rawArgv)
              /\ \E k \in DOMAIN messages : messages[k] = selected.value
        /\ Issued("select.confirm") = {}
        /\ confirmed = NoAnswer
        /\ Spawns = {}
        /\ pc # "child" /\ pc # "confirm"

C8_Witness ==
    /\ Len(messages) = 3
    /\ messages[1] = messages[3]
    /\ messages[1] # messages[2]
    /\ Picked
    /\ selected.value = messages[2]
    /\ pc = "commit"

(***************************************************************************)
(* C9.  assertGitRepo is the first operation; with stageAll the index      *)
(* update is issued before the staged diff is taken, without it never;     *)
(* when no staged diff is found the run fails with the NoStagedChanges     *)
(* message and exit code 1, with no prompt, no generation call, no commit. *)
(***************************************************************************)
C9_DetectorOrder ==
    /\ Len(out) >= 2 /\ out[1] = Intro /\ out[2] = AssertGitRepoCall
    /\ NotAGitRepo =>
          out \in {<<Intro, AssertGitRepoCall>>,
                   <<Intro, AssertGitRepoCall>> \o HandlerEffects(error)}
    /\ stageAll =>
          \A j \in Issued("getStagedDiff") : \E i \in GitAdds : i < j
    /\ ~stageAll => GitAdds = {}
    /\ \A i \in GitAdds : out[i] = GitAddCall /\ i = 3
    /\ NoStagedChanges =>
          /\ error = KnownError(NoStagedMessage)
          /\ pc \in {"catch", "exited"}
          /\ pc = "exited" =>
                (exitCode = 1 /\ LastEffects(3)[1] = Outro("[x] " \o NoStagedMessage))
          /\ CollectorPrompts \cup ControllerPrompts = {}
          /\ Issued("generateCommitMessage") = {}
          /\ Spawns = {}
          /\ Commits = {}

\* scenario B
C9_Witness == ~stageAll /\ NoStagedChanges /\ pc = "exited" /\ exitCode = 1

C9_WitnessStageAll == stageAll /\ Issued("getStagedDiff") # {} /\ GitAdds = {3}

(***************************************************************************)
(* C10.  When the generation call fails the run ends with exit code 1 and  *)
(* the failure's message on the failure line; no message-selection prompt  *)
(* is shown, no child is spawned, no commit is invoked.                    *)
(***************************************************************************)
C10_GenerationFailure ==
    GenerationFailure =>
        /\ error = ExternalError("generateCommitMessage")
        /\ pc \in {"catch", "exited"}
        /\ pc = "exited" =>
              (exitCode = 1 /\ LastEffects(3) = HandlerEffects(error))
        /\ ControllerPrompts = {}
        /\ Spawns = {}
        /\ Commits = {}

\* scenario D
C10_Witness ==
    /\ GenerationFailure
    /\ pc = "exited"
    /\ exitCode = 1
    /\ FailureLine(ExternalError("generateCommitMessage")) \in {out[i] : i \in Issued("outro")}

====
